---- MODULE Spec2Model ----
(***************************************************************************)
(* Model of lib/ansible/modules/network/exos/exos_config.py: one task run  *)
(* of the exos_config module against one device, and the same task run     *)
(* again on the device as the run before left it.                          *)
(*                                                                         *)
(* Spec covers the body of main() from "config = None" (line 266) to       *)
(* exit_json (line 364), entered with `module`, `connection` and `result`  *)
(* bound and the arguments validated.  SpecValidated puts the validation   *)
(* of the arguments (line 255) in front of that body, SpecTransport adds   *)
(* the failure of a device call to it.  SpecMain is main() from its first  *)
(* statement (line 221), with Python's resolution of the names each        *)
(* statement reads.                                                        *)
(*                                                                         *)
(* A configuration text is the sequence of its lines.  The device is its   *)
(* running and its startup configuration.  The library the module calls    *)
(* (NetworkConfig, dumps, load_config, Connection) is not in the module's  *)
(* file; it is modelled at its interface.  connection.get_config(module)   *)
(* at line 269 is taken as a fetch of the running configuration.           *)
(***************************************************************************)
EXTENDS Integers, Sequences, FiniteSets, TLC

(* ---------------------------------------------------------------- bounds *)
\* longest `lines` argument enumerated
MaxLen == 2
\* how many times the same task is run against the device
MaxRuns == 2

(* ------------------------------------------------------------ input sets *)
Lines == {"l1", "l2"}
\* administrative commands of `before` / `after`: they are no configuration lines
BeforeLists == {<<>>, <<"pre">>}
AfterLists == {<<>>, <<"post">>}
\* contents of the file `src` names
SrcFiles == {<<"l2", "l1">>}
\* texts of a caller-supplied running_config (<<>> is None)
RunningConfigArgs == {<<>>, <<"l1">>}
\* texts of intended_config
IntendedConfigs == {<<"l1">>}
\* the device's configurations when the task starts
DeviceRunning == {<<>>, <<"l1">>, <<"l1", "l2">>}
DeviceStartup == {<<>>, <<"l1">>}
IgnoreSets == {{}, {"l2"}}

SeqsUpTo(S, n) == UNION {[1..k -> S] : k \in 0..n}

Range(s) == {s[i] : i \in DOMAIN s}

(* ----------------------------------------------------- optional values *)
\* Python's None, and a present text
None == [none |-> TRUE, text |-> <<>>]
Doc(t) == [none |-> FALSE, text |-> t]

(* ------------------------------------------------------------- library *)
\* NetworkConfig(contents=..., ignore_lines=...).items: the lines that are
\* not ignored, in order
Parse(text, ignore) == SelectSeq(text, LAMBDA l : l \notin ignore)

\* NetworkConfig.sha1: the digest of the parsed document (collision free)
Sha1(items) == items

\* truth value of a NetworkConfig object that may be None: None and a
\* document without items are false
Truthy(cfg, ignore) == ~cfg.none /\ Parse(cfg.text, ignore) # <<>>

\* candidate lines that are nowhere in the baseline
DiffLine(cand, base) == SelectSeq(cand, LAMBDA l : l \notin Range(base))

RECURSIVE StrictFrom(_, _, _)
StrictFrom(cand, base, i) ==
    IF i > Len(cand) THEN <<>>
    ELSE (IF i > Len(base) \/ cand[i] # base[i] THEN <<cand[i]>> ELSE <<>>)
         \o StrictFrom(cand, base, i + 1)

\* candidate lines that are not at the same position in the baseline
DiffStrict(cand, base) == StrictFrom(cand, base, 1)

\* the whole candidate unless it equals the baseline
DiffExact(cand, base) == IF cand = base THEN <<>> ELSE cand

Unmatched(cand, base, match) ==
    CASE match = "line" -> DiffLine(cand, base)
      [] match = "strict" -> DiffStrict(cand, base)
      [] match = "exact" -> DiffExact(cand, base)

\* candidate.difference(config, match=match, replace=replace)
Difference(cand, base, match, replace) ==
    LET u == Unmatched(cand, base, match)
    IN IF replace = "block" THEN (IF u # <<>> THEN cand ELSE <<>>) ELSE u

\* dumps(configobjs, 'commands').split('\n')
DumpsSplit(objs) == IF objs = <<>> THEN <<"">> ELSE objs

RECURSIVE Apply(_, _)
Apply(cfg, cmds) ==
    IF cmds = <<>> THEN cfg
    ELSE Apply(IF cmds[1] \in Lines /\ cmds[1] \notin Range(cfg)
               THEN Append(cfg, cmds[1]) ELSE cfg, Tail(cmds))

\* load_config(module, commands): the device executes the commands
load_config(cfg, cmds) == Apply(cfg, cmds)

(* ---------------------------------------------------------------- state *)
VARIABLES
    params,          \* module.params, module.check_mode, module._diff
    running,         \* the device's running configuration
    startup,         \* the device's startup configuration
    pc,              \* position in main()
    result,          \* the result dictionary
    config,          \* main's local `config`
    configobjs,      \* main's local `configobjs`
    running_config,  \* main's local `running_config`
    startup_config,  \* main's local `startup_config`
    calls,           \* device calls of this run, in order
    loaded,          \* the commands handed to load_config in this run
    atStart,         \* the device's configurations when this run started
    runs,            \* number of the current run
    prev             \* result of the previous run of the task

vars == <<params, running, startup, pc, result, config, configobjs,
          running_config, startup_config, calls, loaded, atStart, runs, prev>>

\* result = {'changed': False}; result['warnings'] = warnings
EmptyResult == [changed |-> FALSE, commands |-> None, updates |-> None,
                warnings |-> <<>>, backup |-> None,
                diff |-> [none |-> TRUE, before |-> <<>>, after |-> <<>>]]

\* mutually_exclusive left out
ValidParamsNotExclusive(p) ==
    /\ (p.match \in {"strict", "exact"} => p.lines # <<>>)
    /\ (p.replace = "block" => p.lines # <<>>)
    /\ (p.diff_against = "intended" => ~p.intended_config.none)

\* the argument_spec, mutually_exclusive and required_if of main()
ValidParams(p) ==
    /\ ~(p.lines # <<>> /\ ~p.src.none)
    /\ (p.match \in {"strict", "exact"} => p.lines # <<>>)
    /\ (p.replace = "block" => p.lines # <<>>)
    /\ (p.diff_against = "intended" => ~p.intended_config.none)

\* The arguments a run never reads are left at their defaults: diff_against
\* without --diff (lines 268, 323), intended_config unless diff_against is
\* intended (346), diff_ignore_lines unless save_when is modified or --diff
\* is given (315-316, 330, 349).  before and after are given together.
Enumerated(p) ==
    /\ (~p.diff => p.diff_against = "null")
    /\ (p.diff_against # "intended" => p.intended_config.none)
    /\ (~p.diff /\ p.save_when # "modified" => p.diff_ignore_lines = {})
    /\ (p.before = <<>> <=> p.after = <<>>)

ParamSpace ==
    [lines : SeqsUpTo(Lines, MaxLen),
     src : {None} \cup {Doc(f) : f \in SrcFiles},
     before : BeforeLists,
     after : AfterLists,
     match : {"line", "strict", "exact", "none"},
     replace : {"line", "block"},
     running_config : RunningConfigArgs,
     intended_config : {None} \cup {Doc(t) : t \in IntendedConfigs},
     backup : BOOLEAN,
     save_when : {"always", "never", "modified", "changed"},
     diff_against : {"null", "startup", "intended", "running"},
     diff_ignore_lines : IgnoreSets,
     check_mode : BOOLEAN,
     diff : BOOLEAN]

Init ==
    /\ params \in {p \in ParamSpace : ValidParams(p) /\ Enumerated(p)}
    /\ running \in DeviceRunning
    /\ startup \in DeviceStartup
    /\ pc = "snapshot"
    /\ result = EmptyResult
    /\ config = None
    /\ configobjs = <<>>
    /\ running_config = None
    /\ startup_config = None
    /\ calls = <<>>
    /\ loaded = None
    /\ atStart = [running |-> running, startup |-> startup]
    /\ runs = 1
    /\ prev = [none |-> TRUE, changed |-> FALSE, commands |-> None]

\* the save policy evaluated before the push
NextStepSaveFirst(at) ==
    CASE at = "snapshot" -> "save"
      [] at = "save" -> "push"
      [] at = "push" -> "diff"
      [] at = "diff" -> "done"

\* the order of the steps of main(): lines 268, 274, 311, 323, 364
NextStep(at) ==
    CASE at = "snapshot" -> "push"
      [] at = "push" -> "save"
      [] at = "save" -> "diff"
      [] at = "diff" -> "done"

\* lines 268-269: the device calls of the snapshot step
SnapshotCalls(p) ==
    IF p.backup \/ (p.diff /\ p.diff_against = "running")
    THEN <<"get_running">> ELSE <<>>

\* lines 266-272
Snapshot ==
    /\ pc = "snapshot"
    /\ IF params.backup \/ (params.diff /\ params.diff_against = "running")
       THEN /\ config' = Doc(running)
            /\ result' = IF params.backup
                         THEN [result EXCEPT !.backup = Doc(running)]
                         ELSE result
       ELSE UNCHANGED <<config, result>>
    /\ calls' = calls \o SnapshotCalls(params)
    /\ pc' = NextStep(pc)
    /\ UNCHANGED <<params, running, startup, configobjs, running_config,
                   startup_config, loaded, atStart, runs, prev>>

\* get_candidate(module).items, lines 195-205
get_candidate(p) ==
    IF ~p.src.none THEN Parse(p.src.text, {})
    ELSE IF p.lines # <<>> THEN p.lines
    ELSE <<>>

\* get_running_config, lines 185-192: does it call connection.get_config ?
RunningConfigFetched(p, current_config) ==
    p.running_config = <<>> /\ ~Truthy(current_config, {})

\* get_running_config, lines 185-192: the contents of the document returned
get_running_config(p, current_config, dev) ==
    IF p.running_config # <<>> THEN p.running_config
    ELSE IF Truthy(current_config, {}) THEN current_config.text
    ELSE dev

\* any((module.params['lines'], module.params['src'])), line 274
HasCandidate(p) == p.lines # <<>> \/ ~p.src.none

\* replace=replace not handed to difference()
ConfigObjsReplaceLine(p, current_config, dev) ==
    IF p.match # "none"
    THEN Difference(get_candidate(p),
                    Parse(get_running_config(p, current_config, dev), {}),
                    p.match, "line")
    ELSE get_candidate(p)

\* the candidate compared with the running configuration under match=none too
ConfigObjsAlwaysCompared(p, current_config, dev) ==
    Difference(get_candidate(p),
               Parse(get_running_config(p, current_config, dev), {}),
               IF p.match = "none" THEN "line" ELSE p.match, p.replace)

\* the candidate never compared: every line taken as unmatched
ConfigObjsUncompared(p, current_config, dev) == get_candidate(p)

\* lines 280-284
ConfigObjs(p, current_config, dev) ==
    IF p.match # "none"
    THEN Difference(get_candidate(p),
                    Parse(get_running_config(p, current_config, dev), {}),
                    p.match, p.replace)
    ELSE get_candidate(p)

\* before and after exchanged
CommandsAfterFirst(p, objs) == p.after \o DumpsSplit(objs) \o p.before

\* lines 287-293
Commands(p, objs) == p.before \o DumpsSplit(objs) \o p.after

\* the commands assembled whatever configobjs is
ChangeNeededAlways(objs) == TRUE

\* "if configobjs:", line 286
ChangeNeeded(objs) == objs # <<>>

\* load_config called in check mode too
LoadCalledUnguarded(p, commands) == commands # <<>>

\* lines 300-301: is load_config called with the commands ?
LoadCalled(p, commands) == ~p.check_mode /\ commands # <<>>

\* lines 281, 300-302: the device calls of the push step
PushCalls(p, current_config, dev) ==
    IF HasCandidate(p)
    THEN LET objs == ConfigObjs(p, current_config, dev)
         IN (IF p.match # "none" /\ RunningConfigFetched(p, current_config)
             THEN <<"get_running">> ELSE <<>>)
            \o (IF ChangeNeeded(objs) /\ LoadCalled(p, Commands(p, objs))
                THEN <<"load_config">> ELSE <<>>)
    ELSE <<>>

\* lines 274-304
Push ==
    /\ pc = "push"
    /\ IF HasCandidate(params)
       THEN LET objs == ConfigObjs(params, config, running)
                commands == Commands(params, objs)
                needed == ChangeNeeded(objs)
                pushed == needed /\ LoadCalled(params, commands)
            IN /\ config' = IF params.match # "none"
                            THEN Doc(get_running_config(params, config, running))
                            ELSE config
               /\ configobjs' = objs
               /\ result' = IF needed
                            THEN [result EXCEPT !.commands = Doc(commands),
                                                !.updates = Doc(commands),
                                                !.changed = TRUE]
                            ELSE result
               /\ running' = IF pushed THEN load_config(running, commands)
                             ELSE running
               /\ loaded' = IF pushed THEN Doc(commands) ELSE loaded
       ELSE UNCHANGED <<config, configobjs, result, running, loaded>>
    /\ calls' = calls \o PushCalls(params, config, running)
    /\ pc' = NextStep(pc)
    /\ UNCHANGED <<params, startup, running_config, startup_config, atStart,
                   runs, prev>>

\* changed set only where the save command is issued
SavedResultUnlessCheck(p, res) ==
    [res EXCEPT !.changed = IF p.check_mode THEN @ ELSE TRUE,
                !.warnings = IF p.check_mode
                             THEN Append(res.warnings, "save skipped: check_mode")
                             ELSE res.warnings]

\* save_config, lines 208-215: the result after it
SavedResult(p, res) ==
    [res EXCEPT !.changed = TRUE,
                !.warnings = IF p.check_mode
                             THEN Append(res.warnings, "save skipped: check_mode")
                             ELSE res.warnings]

\* modified: the documents compared without diff_ignore_lines
SaveCalledUnfiltered(p, res, run, start) ==
    CASE p.save_when = "always" -> TRUE
      [] p.save_when = "modified" -> Sha1(Parse(run, {})) # Sha1(Parse(start, {}))
      [] p.save_when = "changed" -> res.changed
      [] OTHER -> FALSE

\* changed: result['changed'] not tested
SaveCalledWheneverChanged(p, res, run, start) ==
    CASE p.save_when = "always" -> TRUE
      [] p.save_when = "modified" ->
            Sha1(Parse(run, p.diff_ignore_lines))
              # Sha1(Parse(start, p.diff_ignore_lines))
      [] p.save_when = "changed" -> TRUE
      [] OTHER -> FALSE

\* always: treated as changed
SaveCalledAlwaysAsChanged(p, res, run, start) ==
    CASE p.save_when = "modified" ->
            Sha1(Parse(run, p.diff_ignore_lines))
              # Sha1(Parse(start, p.diff_ignore_lines))
      [] p.save_when \in {"always", "changed"} -> res.changed
      [] OTHER -> FALSE

\* lines 311-321: is save_config called ?
SaveCalled(p, res, run, start) ==
    CASE p.save_when = "always" -> TRUE
      [] p.save_when = "modified" ->
            Sha1(Parse(run, p.diff_ignore_lines))
              # Sha1(Parse(start, p.diff_ignore_lines))
      [] p.save_when = "changed" -> res.changed
      [] OTHER -> FALSE

\* save_config, lines 210-211: is the save command issued ?
SaveIssued(p) == ~p.check_mode

\* lines 311-321: the device calls of the save step
SaveCalls(p, res, run, start) ==
    (IF p.save_when = "modified" THEN <<"get_running", "get_startup">>
     ELSE <<>>)
    \o (IF SaveCalled(p, res, run, start) /\ SaveIssued(p) THEN <<"save">>
        ELSE <<>>)

\* lines 306-321
Save ==
    /\ pc = "save"
    /\ LET modified == params.save_when = "modified"
           called == SaveCalled(params, result, running, startup)
           saved == called /\ SaveIssued(params)
       IN /\ running_config' = IF modified THEN Doc(running) ELSE None
          /\ startup_config' = IF modified THEN Doc(startup) ELSE None
          /\ result' = IF called THEN SavedResult(params, result) ELSE result
          /\ startup' = IF saved THEN running ELSE startup
          /\ calls' = calls \o SaveCalls(params, result, running, startup)
    /\ pc' = NextStep(pc)
    /\ UNCHANGED <<params, running, config, configobjs, loaded, atStart, runs,
                   prev>>

\* lines 324-327: the running contents the diff uses, and whether it is fetched
DiffRunningFetched(p, rc) == ~Truthy(rc, p.diff_ignore_lines)

DiffRunning(p, rc, dev) == IF DiffRunningFetched(p, rc) THEN dev ELSE rc.text

\* lines 332-346: is the startup configuration fetched ?
DiffStartupFetched(p, sc) ==
    p.diff_against = "startup" /\ ~Truthy(sc, p.diff_ignore_lines)

\* diff_against=running: check mode not tested
DiffBaseInCheckMode(p, contents, cfg, sc, devStartup) ==
    CASE p.diff_against = "running" -> Doc(cfg.text)
      [] p.diff_against = "startup" ->
            IF ~Truthy(sc, p.diff_ignore_lines) THEN Doc(devStartup)
            ELSE Doc(sc.text)
      [] p.diff_against = "intended" -> Doc(p.intended_config.text)
      [] OTHER -> Doc(contents)

\* lines 332-346: the baseline contents, None when there is none
DiffBase(p, contents, cfg, sc, devStartup) ==
    CASE p.diff_against = "running" ->
            IF p.check_mode THEN None ELSE Doc(cfg.text)
      [] p.diff_against = "startup" ->
            IF ~Truthy(sc, p.diff_ignore_lines) THEN Doc(devStartup)
            ELSE Doc(sc.text)
      [] p.diff_against = "intended" -> Doc(p.intended_config.text)
      [] OTHER -> Doc(contents)

\* changed forced whenever a baseline exists
DiffResultAlwaysChanged(p, res, run, base) ==
    IF base.none THEN res
    ELSE LET r == Parse(run, p.diff_ignore_lines)
             b == Parse(base.text, p.diff_ignore_lines)
         IN IF Sha1(r) # Sha1(b)
            THEN [res EXCEPT
                    !.changed = TRUE,
                    !.diff = IF p.diff_against = "intended"
                             THEN [none |-> FALSE, before |-> r, after |-> b]
                             ELSE [none |-> FALSE, before |-> b, after |-> r]]
            ELSE [res EXCEPT !.changed = TRUE]

\* the diff reported without changed being set
DiffResultKeepsChanged(p, res, run, base) ==
    IF base.none THEN res
    ELSE LET r == Parse(run, p.diff_ignore_lines)
             b == Parse(base.text, p.diff_ignore_lines)
         IN IF Sha1(r) # Sha1(b)
            THEN [res EXCEPT
                    !.diff = IF p.diff_against = "intended"
                             THEN [none |-> FALSE, before |-> r, after |-> b]
                             ELSE [none |-> FALSE, before |-> b, after |-> r]]
            ELSE res

\* lines 348-362: the result after the comparison with the baseline
DiffResult(p, res, run, base) ==
    IF base.none THEN res
    ELSE LET r == Parse(run, p.diff_ignore_lines)
             b == Parse(base.text, p.diff_ignore_lines)
         IN IF Sha1(r) # Sha1(b)
            THEN [res EXCEPT
                    !.changed = TRUE,
                    !.diff = IF p.diff_against = "intended"
                             THEN [none |-> FALSE, before |-> r, after |-> b]
                             ELSE [none |-> FALSE, before |-> b, after |-> r]]
            ELSE res

\* lines 324-325, 340-341: the device calls of the diff step
DiffCalls(p, rc, sc) ==
    IF p.diff
    THEN (IF DiffRunningFetched(p, rc) THEN <<"get_running">> ELSE <<>>)
         \o (IF DiffStartupFetched(p, sc) THEN <<"get_startup">> ELSE <<>>)
    ELSE <<>>

\* lines 323-364
Diff ==
    /\ pc = "diff"
    /\ IF params.diff
       THEN LET contents == DiffRunning(params, running_config, running)
                base == DiffBase(params, contents, config, startup_config,
                                 startup)
                warned == params.diff_against = "running" /\ params.check_mode
                res == IF warned
                       THEN [result EXCEPT !.warnings =
                               Append(@, "diff skipped: check_mode")]
                       ELSE result
            IN /\ running_config' = Doc(contents)
               /\ result' = DiffResult(params, res, contents, base)
       ELSE UNCHANGED <<running_config, result>>
    /\ calls' = calls \o DiffCalls(params, running_config, startup_config)
    /\ pc' = NextStep(pc)
    /\ UNCHANGED <<params, running, startup, config, configobjs,
                   startup_config, loaded, atStart, runs, prev>>

\* the same task is run again on the device as the last run left it
Rerun ==
    /\ pc = "done"
    /\ runs < MaxRuns
    /\ runs' = runs + 1
    /\ prev' = [none |-> FALSE, changed |-> result.changed,
                commands |-> result.commands]
    /\ atStart' = [running |-> running, startup |-> startup]
    /\ pc' = "snapshot"
    /\ result' = EmptyResult
    /\ config' = None
    /\ configobjs' = <<>>
    /\ running_config' = None
    /\ startup_config' = None
    /\ calls' = <<>>
    /\ loaded' = None
    /\ UNCHANGED <<params, running, startup>>

Next == Snapshot \/ Push \/ Save \/ Diff \/ Rerun

Spec == Init /\ [][Next]_vars

(* --------------------------------------------------- the entry of main *)
\* the names main() assigns: they are local to main() from its first line
MainLocals ==
    {"connection", "exc", "argument_spec", "mutually_exclusive",
     "required_if", "module", "result", "warnings", "config", "contents",
     "match", "replace", "candidate", "configobjs", "commands",
     "running_config", "startup_config", "diff_ignore_lines", "base_config",
     "before", "after"}

\* the names the file binds at module level (imports, lines 172-180, and
\* functions, lines 185-218) and the builtins main() uses
ModuleGlobals ==
    {"re", "time", "run_commands", "load_config", "AnsibleModule",
     "Conditional", "NetworkConfig", "dumps", "iteritems", "Connection",
     "ConnectionError", "get_running_config", "get_candidate", "save_config",
     "main", "dict", "list", "any", "str"}

\* the statements of main() before its body (lines 221-264): the names each
\* one reads and the locals it binds
EntryStmts ==
    <<[at |-> "connect", reads |-> {"Connection", "module"},
       binds |-> {"connection"}, next |-> "argspec"],
      [at |-> "argspec", reads |-> {"dict"},
       binds |-> {"argument_spec", "mutually_exclusive", "required_if"},
       next |-> "module"],
      [at |-> "module",
       reads |-> {"AnsibleModule", "argument_spec", "mutually_exclusive",
                  "required_if"},
       binds |-> {"module"}, next |-> "result"],
      [at |-> "result", reads |-> {"list"},
       binds |-> {"result", "warnings"}, next |-> "check_args"],
      [at |-> "check_args", reads |-> {"check_args", "module", "warnings"},
       binds |-> {}, next |-> "snapshot"]>>

EntryLabels == {EntryStmts[i].at : i \in DOMAIN EntryStmts}

StmtAt(label) ==
    EntryStmts[CHOOSE i \in DOMAIN EntryStmts : EntryStmts[i].at = label]

\* the locals bound when the statement at label starts
BoundAt(label) ==
    UNION {EntryStmts[i].binds :
             i \in {j \in DOMAIN EntryStmts :
                      \E k \in DOMAIN EntryStmts :
                         EntryStmts[k].at = label /\ j < k}}

\* Python's lookup of a name in main(): a local must be bound already, any
\* other name must be a global of the file or a builtin
Resolves(name, locals, bound) ==
    IF name \in locals THEN name \in bound ELSE name \in ModuleGlobals

\* a task as it enters main()
InitMain ==
    /\ params \in {p \in ParamSpace : Enumerated(p)}
    /\ running \in DeviceRunning
    /\ startup \in DeviceStartup
    /\ pc = "connect"
    /\ result = EmptyResult
    /\ config = None
    /\ configobjs = <<>>
    /\ running_config = None
    /\ startup_config = None
    /\ calls = <<>>
    /\ loaded = None
    /\ atStart = [running |-> running, startup |-> startup]
    /\ runs = 1
    /\ prev = [none |-> TRUE, changed |-> FALSE, commands |-> None]

\* one statement of lines 221-264: NameError or UnboundLocalError if a name
\* it reads does not resolve, fail_json if the arguments conflict
Enter ==
    /\ pc \in EntryLabels
    /\ LET s == StmtAt(pc)
       IN pc' = IF \E n \in s.reads : ~Resolves(n, MainLocals, BoundAt(pc))
                THEN "raised"
                ELSE IF pc = "module" /\ ~ValidParams(params) THEN "failed"
                ELSE s.next
    /\ UNCHANGED <<params, running, startup, result, config, configobjs,
                   running_config, startup_config, calls, loaded, atStart,
                   runs, prev>>

NextMain == Enter

SpecMain == InitMain /\ [][NextMain]_vars

(* ---------------------------------------------------- transport failure *)
\* the device calls the step at pc is about to make, in order
StepCalls ==
    CASE pc = "snapshot" -> SnapshotCalls(params)
      [] pc = "push" -> PushCalls(params, config, running)
      [] pc = "save" -> SaveCalls(params, result, running, startup)
      [] pc = "diff" -> DiffCalls(params, running_config, startup_config)
      [] OTHER -> <<>>

\* the exception of a failed device call swallowed: main() goes on
AfterFailureGoesOn(at) == NextStep(at)

\* main() has no handler around its device calls (lines 266-364): the
\* exception of a failed call leaves main()
AfterFailure(at) == "aborted"

\* what a failed load_config may leave of the commands on the device
PartlyLoaded(cfg, cmds) ==
    {load_config(cfg, SubSeq(cmds, 1, n)) : n \in 0..Len(cmds)}

\* a device call of the current step fails: the calls before it in the step
\* were made, the failed one may have taken effect on the device in part
Abort ==
    /\ pc \in {"snapshot", "push", "save", "diff"}
    /\ \E k \in 1..Len(StepCalls) :
         LET failing == StepCalls[k]
             commands == Commands(params, ConfigObjs(params, config, running))
         IN /\ calls' = calls \o SubSeq(StepCalls, 1, k - 1)
                              \o <<failing, "failed">>
            /\ running' \in IF failing = "load_config"
                            THEN PartlyLoaded(running, commands)
                            ELSE {running}
            /\ startup' \in IF failing = "save" THEN {startup, running}
                            ELSE {startup}
            /\ loaded' = IF failing = "load_config" THEN Doc(commands)
                         ELSE loaded
    /\ pc' = AfterFailure(pc)
    /\ UNCHANGED <<params, result, config, configobjs, running_config,
                   startup_config, atStart, runs, prev>>

NextTransport == Snapshot \/ Push \/ Save \/ Diff \/ Rerun \/ Abort

SpecTransport == Init /\ [][NextTransport]_vars

(* ------------------------------------------------- argument validation *)
\* a task as it is handed to the module, before its arguments are validated
InitArgs ==
    /\ params \in {p \in ParamSpace : Enumerated(p)}
    /\ running \in DeviceRunning
    /\ startup \in DeviceStartup
    /\ pc = "validate"
    /\ result = EmptyResult
    /\ config = None
    /\ configobjs = <<>>
    /\ running_config = None
    /\ startup_config = None
    /\ calls = <<>>
    /\ loaded = None
    /\ atStart = [running |-> running, startup |-> startup]
    /\ runs = 1
    /\ prev = [none |-> TRUE, changed |-> FALSE, commands |-> None]

\* AnsibleModule(argument_spec, mutually_exclusive, required_if), lines
\* 255-258: fail_json on an input conflict, else on to the body of main()
Validate ==
    /\ pc = "validate"
    /\ pc' = IF ValidParams(params) THEN "snapshot" ELSE "failed"
    /\ UNCHANGED <<params, running, startup, result, config, configobjs,
                   running_config, startup_config, calls, loaded, atStart,
                   runs, prev>>

NextValidated == Validate \/ Snapshot \/ Push \/ Save \/ Diff \/ Rerun

SpecValidated == InitArgs /\ [][NextValidated]_vars

(* ---------------------------------------------------------- properties *)
Count(log, c) == Cardinality({i \in DOMAIN log : log[i] = c})
AfterPush == pc \in {"save", "diff", "done"}
Finished == pc = "done"
SaveWarning == "save skipped: check_mode"

\* C1: in check mode no run issues a state-mutating device call: load_config
\* is never called and the save command is never sent, so the device's
\* running and startup configurations stay what they were when the run
\* started; the read-only fetches of the run are still issued.
CheckModeNeverMutates ==
    params.check_mode =>
        /\ "load_config" \notin Range(calls)
        /\ "save" \notin Range(calls)
        /\ loaded.none
        /\ running = atStart.running
        /\ startup = atStart.startup
        /\ (pc # "snapshot" /\ params.backup => "get_running" \in Range(calls))
        /\ (AfterPush /\ HasCandidate(params) /\ params.match # "none"
              /\ params.running_config = <<>>
                => "get_running" \in Range(calls))
        /\ (pc \in {"diff", "done"} /\ params.save_when = "modified"
                => /\ "get_running" \in Range(calls)
                   /\ "get_startup" \in Range(calls))

\* a check-mode run that had commands to push and a save to make has finished
CheckModeRunFinished ==
    /\ Finished
    /\ params.check_mode
    /\ configobjs # <<>>
    /\ params.save_when = "always"
    /\ "get_running" \in Range(calls)
    /\ atStart.running # atStart.startup

\* C2 as stated: with save_when=always in check mode no save is issued, a
\* warning is recorded, and changed is false when nothing was to push and no
\* diff is reported.
CheckModeSaveAlwaysLeavesChanged ==
    Finished /\ params.save_when = "always" /\ params.check_mode
        => /\ "save" \notin Range(calls)
           /\ SaveWarning \in Range(result.warnings)
           /\ (configobjs = <<>> /\ result.diff.none => ~result.changed)

\* C2 amended: with save_when=always in check mode no save is issued, a
\* warning is recorded, and changed is true, also when nothing was to push
\* and no diff is reported: save_config sets it before it tests check mode.
CheckModeSaveAlwaysSetsChanged ==
    pc \in {"diff", "done"} /\ params.save_when = "always" /\ params.check_mode
        => /\ "save" \notin Range(calls)
           /\ startup = atStart.startup
           /\ SaveWarning \in Range(result.warnings)
           /\ result.changed

\* a check-mode run with save_when=always, nothing to push and no diff
CheckModeSaveAlwaysNothingToPush ==
    /\ Finished
    /\ params.save_when = "always"
    /\ params.check_mode
    /\ configobjs = <<>>
    /\ result.diff.none
    /\ running # startup

\* C3: when the assembled body is empty nothing is pushed: load_config is not
\* called, the before and after lists are neither sent nor reported, and the
\* push step leaves changed false.
EmptyBodyNoPush ==
    AfterPush /\ configobjs = <<>>
        => /\ "load_config" \notin Range(calls)
           /\ loaded.none
           /\ result.commands.none
           /\ result.updates.none
           /\ running = atStart.running
           /\ (pc = "save" => ~result.changed)

\* the matcher found every candidate line, with before and after lists given
EmptyBodyWithBeforeAfter ==
    /\ pc = "save"
    /\ HasCandidate(params)
    /\ params.match # "none"
    /\ configobjs = <<>>
    /\ params.before # <<>>
    /\ params.after # <<>>
    /\ ~params.check_mode

Snapshotted == params.backup \/ (params.diff /\ params.diff_against = "running")
Surrounded(body) == params.before \o body \o params.after

\* C4: with replace=line and a non-empty unmatched set, the commands pushed
\* and reported are exactly before ++ unmatched lines ++ after, the body
\* being the matcher's unmatched lines in candidate order.
ReplaceLinePushesUnmatched ==
    AfterPush /\ HasCandidate(params) /\ params.match # "none"
      /\ params.replace = "line" /\ configobjs # <<>>
        => /\ configobjs = Unmatched(get_candidate(params), config.text,
                                     params.match)
           /\ result.commands = Doc(Surrounded(configobjs))
           /\ result.updates = Doc(Surrounded(configobjs))
           /\ (~params.check_mode => loaded = Doc(Surrounded(configobjs)))

\* one of two candidate lines was unmatched and pushed between before and after
ReplaceLinePushedOneOfTwo ==
    /\ pc = "save"
    /\ params.match = "line"
    /\ params.replace = "line"
    /\ Len(params.lines) = 2
    /\ configobjs = <<params.lines[2]>>
    /\ params.before # <<>>
    /\ loaded = Doc(<<"pre", params.lines[2], "post">>)

\* C5: with replace=block, if a candidate line is unmatched under the match
\* discipline the body is the whole candidate in its order, and if none is
\* the body is empty and nothing is pushed.
ReplaceBlockPushesCandidate ==
    AfterPush /\ HasCandidate(params) /\ params.match # "none"
      /\ params.replace = "block"
        => IF Unmatched(get_candidate(params), config.text, params.match) # <<>>
           THEN /\ configobjs = get_candidate(params)
                /\ result.commands = Doc(Surrounded(get_candidate(params)))
                /\ (~params.check_mode
                      => loaded = Doc(Surrounded(get_candidate(params))))
           ELSE /\ configobjs = <<>>
                /\ loaded.none
                /\ result.commands.none

\* one of two candidate lines was unmatched and the whole block was pushed
ReplaceBlockPushedBoth ==
    /\ pc = "save"
    /\ params.replace = "block"
    /\ params.match = "line"
    /\ Len(params.lines) = 2
    /\ Len(DiffLine(params.lines, config.text)) = 1
    /\ loaded = Doc(Surrounded(params.lines))

\* C6: with match=none the body is the whole candidate in its order whatever
\* the device or a supplied running_config holds, and the push step does not
\* fetch or read a baseline.
MatchNoneTakesCandidate ==
    AfterPush /\ HasCandidate(params) /\ params.match = "none"
        => /\ configobjs = get_candidate(params)
           /\ result.commands = Doc(Surrounded(get_candidate(params)))
           /\ config = (IF Snapshotted THEN Doc(atStart.running) ELSE None)
           /\ (pc = "save" => Count(calls, "get_running")
                                  = (IF Snapshotted THEN 1 ELSE 0))

\* match=none pushed lines that the device and the supplied baseline had
MatchNonePushedPresentLines ==
    /\ pc = "save"
    /\ params.match = "none"
    /\ configobjs # <<>>
    /\ Range(configobjs) \subseteq Range(atStart.running)
    /\ Range(configobjs) \subseteq Range(params.running_config)
    /\ ~loaded.none

\* the fingerprints of the device's running and startup configurations,
\* filtered by diff_ignore_lines, differ
FingerprintsDiffer ==
    Sha1(Parse(running, params.diff_ignore_lines))
      # Sha1(Parse(startup, params.diff_ignore_lines))

\* C7 as stated: with save_when=modified a save occurs iff the filtered
\* fingerprints of the device's running and startup configurations, as they
\* are after the push step, differ.
SaveModifiedIffDiffer ==
    [][pc = "save" /\ params.save_when = "modified"
        => ("save" \in Range(calls') <=> FingerprintsDiffer)]_vars

\* C7 amended: with save_when=modified, outside check mode the save command
\* is issued iff the filtered fingerprints of the device's running and
\* startup configurations, as they are after the push step, differ (not the
\* pre-push snapshot, not a supplied running_config; a difference in ignored
\* lines only causes no save); in check mode no save command is issued and
\* save_config only warns and sets changed under that same condition.
SaveModifiedIffDifferUnlessCheck ==
    [][pc = "save" /\ params.save_when = "modified"
        => /\ "save" \in Range(calls')
                <=> (FingerprintsDiffer /\ ~params.check_mode)
           /\ "save" \in Range(calls') => startup' = running
           /\ "save" \notin Range(calls') => startup' = startup
           /\ SaveWarning \in Range(result'.warnings)
                <=> (FingerprintsDiffer /\ params.check_mode)
           /\ ~FingerprintsDiffer => result'.changed = result.changed]_vars

\* after a push, running and startup differ in an ignored line only: no save
SaveModifiedSkippedIgnoredLine ==
    /\ pc = "diff"
    /\ params.save_when = "modified"
    /\ ~params.check_mode
    /\ ~loaded.none
    /\ running # atStart.running
    /\ running # startup
    /\ params.running_config # <<>>
    /\ "save" \notin Range(calls)

\* C8 as stated: with save_when=changed a save occurs iff the push step of
\* this run set changed; a run with an empty unmatched set never saves.
SaveChangedIffPushChanged ==
    [][pc = "save" /\ params.save_when = "changed"
        => ("save" \in Range(calls') <=> result.changed)]_vars

\* C8 amended: with save_when=changed, outside check mode the save command is
\* issued iff the push step of this run set changed; in check mode it is
\* never issued (save_config only warns); a run with an empty unmatched set
\* never saves, whatever the running/startup difference is.
SaveChangedIffPushChangedUnlessCheck ==
    [][pc = "save" /\ params.save_when = "changed"
        => /\ "save" \in Range(calls')
                <=> (result.changed /\ ~params.check_mode)
           /\ result.changed <=> configobjs # <<>>
           /\ "save" \in Range(calls') => startup' = running
           /\ configobjs = <<>> => /\ startup' = startup
                                   /\ result' = result
           /\ SaveWarning \in Range(result'.warnings)
                <=> (result.changed /\ params.check_mode)]_vars

\* a run that pushed nothing ends unsaved although running and startup differ
SaveChangedSkippedNoopPush ==
    /\ pc = "diff"
    /\ params.save_when = "changed"
    /\ ~params.check_mode
    /\ HasCandidate(params)
    /\ configobjs = <<>>
    /\ running # startup
    /\ "save" \notin Range(calls)

\* C9 as stated: with save_when=always every run issues the save command
\* once, copying running to startup, and changed is always true.
SaveAlwaysSaves ==
    Finished /\ params.save_when = "always"
        => /\ Count(calls, "save") = 1
           /\ startup = running
           /\ result.changed

\* C9 amended: with save_when=always every run outside check mode issues the
\* save command once, whatever the push step did, copying running to
\* startup; in check mode no save command is issued; changed is true in
\* both cases.
SaveAlwaysSavesUnlessCheck ==
    pc \in {"diff", "done"} /\ params.save_when = "always"
        => /\ result.changed
           /\ Count(calls, "save") = (IF params.check_mode THEN 0 ELSE 1)
           /\ (~params.check_mode => startup = running)

\* a run that pushed nothing saved a running configuration that differed
SaveAlwaysSavedNoopPush ==
    /\ Finished
    /\ params.save_when = "always"
    /\ ~params.check_mode
    /\ configobjs = <<>>
    /\ atStart.running # atStart.startup
    /\ startup = running
    /\ Count(calls, "save") = 1

\* the task runs again, with a match discipline, on a device whose running
\* configuration already satisfies the candidate
SecondRunConverged ==
    /\ Finished
    /\ runs >= 2
    /\ HasCandidate(params)
    /\ params.match \in {"line", "strict", "exact"}
    /\ Unmatched(get_candidate(params), atStart.running, params.match) = <<>>

\* save_config was invoked in this run
SaveInvoked == "save" \in Range(calls) \/ SaveWarning \in Range(result.warnings)

\* C10 as stated: for match line, strict or exact, the second of two runs of
\* the same task on a converged device yields changed=false and no commands,
\* for every replace, save_when, diff_against and running_config.
SecondRunIdempotent ==
    SecondRunConverged => ~result.changed /\ result.commands.none

\* C10 amended: for match line, strict or exact, the second of two runs of
\* the same task on a converged device, with the baseline fetched from the
\* device (no running_config supplied), pushes nothing and yields an empty
\* command list for every replace, save_when and diff_against, and yields
\* changed=false unless save_config is invoked (save_when=always, or modified
\* with differing fingerprints) or the diff step reports a diff.
SecondRunIdempotentOnDeviceBaseline ==
    SecondRunConverged /\ params.running_config = <<>>
        => /\ result.commands.none
           /\ result.updates.none
           /\ loaded.none
           /\ running = atStart.running
           /\ result.changed <=> (SaveInvoked \/ ~result.diff.none)
           /\ SaveInvoked =>
                \/ params.save_when = "always"
                \/ params.save_when = "modified"

\* the first run pushed and saved, the second run found nothing to do
SecondRunFoundNothingToDo ==
    /\ SecondRunConverged
    /\ params.running_config = <<>>
    /\ params.save_when = "changed"
    /\ ~prev.none
    /\ prev.changed
    /\ ~prev.commands.none
    /\ ~params.check_mode
    /\ startup = running
    /\ ~result.changed
    /\ result.commands.none

\* a document as the diff step fingerprints and prints it
Filtered(text) == Parse(text, params.diff_ignore_lines)
DiffWarning == "diff skipped: check_mode"

\* C11: whenever a diff is reported, for diff_against=intended its before
\* side is the running configuration and its after side the intended one; for
\* diff_against=startup or running its before side is the baseline (the
\* startup configuration, or the snapshot of the running configuration taken
\* before the push) and its after side the running configuration after the
\* push.
DiffOrientation ==
    Finished /\ ~result.diff.none
        => CASE params.diff_against = "intended" ->
                    /\ result.diff.before = Filtered(running)
                    /\ result.diff.after = Filtered(params.intended_config.text)
             [] params.diff_against = "startup" ->
                    /\ result.diff.before \in {Filtered(atStart.startup),
                                               Filtered(startup)}
                    /\ result.diff.after = Filtered(running)
             [] params.diff_against = "running" ->
                    /\ result.diff.before = Filtered(atStart.running)
                    /\ result.diff.after = Filtered(running)
             [] OTHER -> FALSE

\* the baseline the diff step selects, as this run holds it when the step starts
SelectedBaseline ==
    CASE params.diff_against = "intended" -> params.intended_config.text
      [] params.diff_against = "startup" ->
            IF params.save_when = "modified" /\ Filtered(startup_config.text) # <<>>
            THEN startup_config.text ELSE startup
      [] params.diff_against = "running" -> config.text
      [] OTHER -> running

\* C12: with diff reporting requested the diff step changes the result only
\* if the filtered fingerprints of the running document and of the selected
\* baseline differ: if they are equal (or no baseline is selected) no diff
\* entry is put in the result and changed keeps its value; if they differ
\* changed is forced true and the result carries both sides.  Without diff
\* reporting the step leaves the result alone and fetches nothing.
DiffStepFrame ==
    [][pc = "diff" =>
        IF ~params.diff
        THEN result' = result /\ calls' = calls
        ELSE IF (params.diff_against = "running" /\ params.check_mode)
                \/ Sha1(Filtered(running)) = Sha1(Filtered(SelectedBaseline))
        THEN /\ result'.diff.none
             /\ result'.changed = result.changed
             /\ result'.commands = result.commands
             /\ result'.backup = result.backup
        ELSE /\ result'.changed
             /\ ~result'.diff.none
             /\ {result'.diff.before, result'.diff.after}
                    = {Filtered(running), Filtered(SelectedBaseline)}
             /\ result'.commands = result.commands]_vars

\* nothing pushed, nothing saved, and the diff alone set changed
DiffAloneSetChanged ==
    /\ Finished
    /\ params.diff
    /\ configobjs = <<>>
    /\ "save" \notin Range(calls)
    /\ result.warnings = <<>>
    /\ ~result.diff.none
    /\ result.changed

\* C13: with diff_against=running outside check mode the baseline of the
\* diff is the device's running configuration as fetched when the run
\* started, before the push, whatever match, backup and running_config are;
\* that snapshot always exists when this baseline is selected.
DiffRunningBaselineIsSnapshot ==
    pc \in {"diff", "done"} /\ params.diff /\ params.diff_against = "running"
      /\ ~params.check_mode
        => /\ ~config.none
           /\ config.text = atStart.running

\* C14: with diff reporting, diff_against=running and check mode the diff
\* step records a warning, reports no diff, leaves changed as it was and the
\* run completes.
DiffRunningCheckModeWarns ==
    [][pc = "diff" /\ params.diff /\ params.diff_against = "running"
         /\ params.check_mode
        => /\ DiffWarning \in Range(result'.warnings)
           /\ result'.diff.none
           /\ result'.changed = result.changed
           /\ pc' = "done"]_vars

\* a check-mode run whose supplied baseline differs from the device completed
\* with the warning and without a diff
DiffRunningCheckModeCompleted ==
    /\ Finished
    /\ params.diff
    /\ params.diff_against = "running"
    /\ params.check_mode
    /\ config.text # running
    /\ DiffWarning \in Range(result.warnings)
    /\ result.diff.none
    /\ ~result.changed

\* C15: the diff step gives the outcome it would give with the running and
\* startup configurations fetched from the device at diff time, also when the
\* run has just saved running to startup.
DiffReuseIsFreshFetch ==
    [][pc = "diff" /\ params.diff
        => LET fresh == DiffResult(params, result, running,
                                   DiffBase(params, running, config, None,
                                            startup))
           IN /\ result'.diff = fresh.diff
              /\ result'.changed = fresh.changed]_vars

\* an input conflict as the module's argument rules name them
InputConflict ==
    \/ params.lines # <<>> /\ ~params.src.none
    \/ params.match \in {"strict", "exact"} /\ params.lines = <<>>
    \/ params.replace = "block" /\ params.lines = <<>>
    \/ params.diff_against = "intended" /\ params.intended_config.none

\* C16: an input conflict is detected before any device interaction: the run
\* aborts with no fetch, push or save issued and the device unchanged.
InputConflictAbortsEarly ==
    InputConflict
        => /\ pc \in {"validate", "failed"}
           /\ calls = <<>>
           /\ loaded.none
           /\ running = atStart.running
           /\ startup = atStart.startup
           /\ result = EmptyResult

\* a task with both lines and src, that would have pushed and saved, failed
InputConflictFailed ==
    /\ pc = "failed"
    /\ params.lines # <<>>
    /\ ~params.src.none
    /\ params.save_when = "always"
    /\ ~params.check_mode
    /\ params.backup
    /\ running # startup

\* C17: a transport failure on a device call aborts the run at once: the
\* failed call is not made again, no device call follows it, nothing is
\* rolled back and no result is returned.
TransportFailureAborts ==
    /\ "failed" \in Range(calls)
        => /\ pc = "aborted"
           /\ Count(calls, "failed") = 1
           /\ calls[Len(calls)] = "failed"
    /\ pc = "aborted" => "failed" \in Range(calls)
    /\ pc = "done" => "failed" \notin Range(calls)

\* the save command failed after a push: the push stays on the device
SaveFailedAfterPush ==
    /\ pc = "aborted"
    /\ "load_config" \in Range(calls)
    /\ Len(calls) >= 2
    /\ calls[Len(calls) - 1] = "save"
    /\ running # atStart.running
    /\ startup = atStart.startup

\* the device calls a step may add to the calls of the run
MayAdd(lists) == calls' \in {calls \o l : l \in lists}

\* C18: within a run the device calls come in a fixed order: the snapshot and
\* baseline fetches, the push, the save policy (its fetches, then the save
\* command), the diff fetches; the save policy is evaluated once, after the
\* push step, so the save command is issued at most once and never before
\* the push.
DeviceCallOrder ==
    /\ [](/\ Count(calls, "save") <= 1
          /\ Count(calls, "load_config") <= 1
          /\ \A i, j \in DOMAIN calls :
                calls[i] = "save" /\ calls[j] = "load_config" => j < i)
    /\ [][/\ pc = "snapshot" =>
                pc' = "push" /\ MayAdd({<<>>, <<"get_running">>})
          /\ pc = "push" =>
                /\ pc' = "save"
                /\ MayAdd({<<>>, <<"get_running">>, <<"load_config">>,
                           <<"get_running", "load_config">>})
          /\ pc = "save" =>
                /\ pc' = "diff"
                /\ MayAdd({<<>>, <<"save">>, <<"get_running", "get_startup">>,
                           <<"get_running", "get_startup", "save">>})
          /\ pc = "diff" =>
                /\ pc' = "done"
                /\ MayAdd({<<>>, <<"get_running">>, <<"get_startup">>,
                           <<"get_running", "get_startup">>})
          /\ pc = "done" => pc' = "snapshot" /\ calls' = <<>>]_vars

\* a run made every kind of device call: snapshot, push, save check and save
AllDeviceCallsMade ==
    /\ Finished
    /\ calls = <<"get_running", "load_config", "get_running", "get_startup",
                 "save", "get_startup">>

\* C20: in the result of a completed run changed is true iff the assembled
\* body was non-empty, or save_config was invoked, or the diff step found
\* differing fingerprints; once true in a run, changed is not reset.
ChangedIffCause ==
    /\ [](Finished => (result.changed <=> \/ configobjs # <<>>
                                          \/ SaveInvoked
                                          \/ ~result.diff.none))
    /\ [][result.changed /\ pc # "done" => result'.changed]_vars

\* changed came from the diff step alone
ChangedByDiffOnly ==
    /\ Finished
    /\ result.changed
    /\ configobjs = <<>>
    /\ ~SaveInvoked
    /\ ~result.diff.none
    /\ params.diff_against = "intended"

\* C19: every run with valid inputs and no transport failure returns a
\* result: every step of main(), from opening the connection on, uses only
\* names that are defined where the step executes.
MainUsesDefinedNames ==
    ValidParams(params) => pc # "raised"
====
